---- MODULE Spec2Model ----
(***************************************************************************)
(* A model of drfexts/renderers.py: the JSON envelope renderer and the two *)
(* export renderers (CSV, XLSX) built on BaseExportRenderer.tablize.       *)
(*                                                                         *)
(* One behaviour is one call of one renderer's render().  The call's       *)
(* arguments are chosen in Init; the actions are the successive blocks of  *)
(* the method body, in program order.  tablize is a generator: the model   *)
(* keeps its frame in `gen` and resumes it once per iteration of the       *)
(* caller's `for row in table` loop.  Both callers consume a row in the    *)
(* iteration that produced it (writerow / sheet.append), so a row's cells  *)
(* are computed from the record that was current when it was yielded.      *)
(* The csv writer, the workbook and orjson are collaborators: the model    *)
(* records what is handed to them and treats them as total.                *)
(***************************************************************************)
EXTENDS Integers, Sequences, FiniteSets, TLC

VARIABLES
    renderer,          \* which render() is being called: "json", "csv", "xlsx"
    pc,                \* position in the method body
    arg,               \* the call's arguments as passed (never assigned)
    data,              \* the local `data`
    renderer_context,  \* the local `renderer_context`
    status_code,       \* response.status_code (JSON)
    payload,           \* the local `payload` (JSON)
    header,            \* the local `header` of an export render
    export_style,      \* the local `export_style` (XLSX)
    gen,               \* the frame of the tablize generator `table`
    written,           \* rows handed to csv_writer.writerow / sheet.append
    sheet_style,       \* style values applied to the sheet (XLSX)
    result             \* how the call ended

vars == <<renderer, pc, arg, data, renderer_context, status_code, payload,
          header, export_style, gen, written, sheet_style, result>>

\* Longest list of records in a call's data.
MaxRecords == 2

SeqsUpTo(S, n) == UNION {[1..m -> S] : m \in 0..n}

(***************************************************************************)
(* Python values that occur as cells: <<type, text>>.                      *)
(***************************************************************************)
IntVal == <<"int", "1">>
StrVal == <<"str", "x">>
ListVal == <<"list", "1, 2">>
DictVal == <<"dict", "'k': 1">>
TupleVal == <<"tuple", "1, 2">>
EmptyStr == <<"str", "">>

\* str(value): the brackets of the container become part of the text.
Str(value) ==
    CASE value[1] = "list" -> <<"str", "[", value[2], "]">>
      [] value[1] = "dict" -> <<"str", "{", value[2], "}">>
      [] value[1] = "tuple" -> <<"str", "(", value[2], ")">>
      [] OTHER -> <<"str", value[2]>>

\* isinstance(value, (dict, list))
IsDictOrList(value) == value[1] \in {"dict", "list"}

(***************************************************************************)
(* Records and dicts.  A record is an iterable of key/value pairs; a dict  *)
(* is a sequence of pairs with distinct keys, in insertion order.          *)
(***************************************************************************)
Pair(key, value) == [k |-> key, v |-> value]

HasKey(d, key) == \E i \in 1..Len(d) : d[i].k = key

\* d.get(key, default)
DictGet(d, key, default) ==
    IF HasKey(d, key) THEN d[CHOOSE i \in 1..Len(d) : d[i].k = key].v ELSE default

\* list(d.keys())
Keys(d) == [i \in 1..Len(d) |-> d[i].k]

\* dict(item): a repeated key keeps its first position and takes the last value.
RECURSIVE dict(_)
dict(item) ==
    IF item = <<>> THEN <<>>
    ELSE LET init == dict(SubSeq(item, 1, Len(item) - 1))
             p == item[Len(item)]
         IN IF HasKey(init, p.k)
            THEN [i \in 1..Len(init) |-> IF init[i].k = p.k THEN p ELSE init[i]]
            ELSE Append(init, p)

Records ==
    { <<Pair("a", IntVal), Pair("b", StrVal)>>,
      <<Pair("b", ListVal), Pair("a", DictVal)>>,
      <<Pair("a", TupleVal), Pair("c", IntVal)>>,
      <<>>,
      <<Pair("a", IntVal), Pair("b", StrVal), Pair("a", ListVal)>> }

(***************************************************************************)
(* Headers.  `set` is FALSE for None (or an absent key / attribute).       *)
(***************************************************************************)
NoHeader == [set |-> FALSE, val |-> <<>>]
Hdr(h) == [set |-> TRUE, val |-> h]

\* bool(header)
Truthy(h) == h.set /\ h.val # <<>>

(***************************************************************************)
(* BaseExportRenderer                                                      *)
(***************************************************************************)
get_value_NoDefault(item, key) ==
    LET value == DictGet(item, key, <<"NoneType", "None">>)
    IN IF IsDictOrList(value) THEN Str(value) ELSE value

get_value_DictOnly(item, key) ==
    LET value == DictGet(item, key, EmptyStr)
    IN IF value[1] = "dict" THEN Str(value) ELSE value

get_value(item, key) ==
    LET value == DictGet(item, key, EmptyStr)
    IN IF IsDictOrList(value) THEN Str(value) ELSE value

\* flatten_data yields dict(item) for the next item of the data.
flatten_data(item) == dict(item)

KeyAlphabet == <<"a", "b", "c", "z">>

infer_header_Sorted(first_data) ==
    LET InRecord(key) == HasKey(first_data, key)
    IN SelectSeq(KeyAlphabet, InRecord)

\* header = list(first_data.keys())
infer_header(first_data) == Keys(first_data)

rechain_Dropped(first_data) == <<>>

\* data = chain([first_data], data): what is put back in front of the data.
rechain(first_data) == <<first_data>>

\* bool(data): a list is true when non-empty, an iterator always.
DataTruthy(d) == d.kind = "iter" \/ d.recs # <<>>

NewGen(d, h) ==
    [at |-> "start", data |-> d, header |-> h, pulled |-> 0, chain |-> <<>>]

NoGen == NewGen([kind |-> "none", hasKey |-> FALSE, inner |-> "none",
                 recs |-> <<>>, hdrAttr |-> NoHeader], NoHeader)

(***************************************************************************)
(* tablize, one resumption of the generator frame g: what next(table)      *)
(* does.  out is "yield" (with the row), "stop" (the generator returned)   *)
(* or "raise".  pulled counts the records taken from the input so far.     *)
(***************************************************************************)
tablize(g) ==
    LET d == g.data
        n == Len(d.recs)
    IN
    IF g.at = "start" THEN
        LET h0 == IF ~Truthy(g.header) /\ d.hdrAttr.set THEN d.hdrAttr ELSE g.header
        IN IF DataTruthy(d) THEN
               IF ~Truthy(h0) THEN
                   IF n = 0
                   THEN \* next(data) raises StopIteration inside a generator
                        [out |-> "raise", exc |-> "RuntimeError", row |-> <<>>,
                         g |-> [g EXCEPT !.at = "raised", !.header = h0]]
                   ELSE LET first_data == flatten_data(d.recs[1])
                            h == Hdr(infer_header(first_data))
                        IN [out |-> "yield", exc |-> "", row |-> h.val,
                            g |-> [g EXCEPT !.at = "rows", !.header = h,
                                            !.pulled = 1,
                                            !.chain = rechain(first_data)]]
               ELSE [out |-> "yield", exc |-> "", row |-> h0.val,
                     g |-> [g EXCEPT !.at = "rows", !.header = h0]]
           ELSE IF Truthy(h0) THEN
               [out |-> "yield", exc |-> "", row |-> h0.val,
                g |-> [g EXCEPT !.at = "tail", !.header = h0]]
           ELSE [out |-> "stop", exc |-> "", row |-> <<>>,
                 g |-> [g EXCEPT !.at = "finished", !.header = h0]]
    ELSE IF g.at = "rows" THEN
        IF g.chain # <<>> THEN
            LET item == Head(g.chain)
            IN [out |-> "yield", exc |-> "",
                row |-> [j \in 1..Len(g.header.val) |-> get_value(item, g.header.val[j])],
                g |-> [g EXCEPT !.chain = Tail(g.chain)]]
        ELSE IF g.pulled < n THEN
            LET item == flatten_data(d.recs[g.pulled + 1])
            IN [out |-> "yield", exc |-> "",
                row |-> [j \in 1..Len(g.header.val) |-> get_value(item, g.header.val[j])],
                g |-> [g EXCEPT !.pulled = g.pulled + 1]]
        ELSE [out |-> "stop", exc |-> "", row |-> <<>>,
              g |-> [g EXCEPT !.at = "finished"]]
    ELSE [out |-> "stop", exc |-> "", row |-> <<>>,
          g |-> [g EXCEPT !.at = "finished"]]

(***************************************************************************)
(* Results of a call.                                                      *)
(***************************************************************************)
Pending == [kind |-> "pending", exc |-> "", empty |-> FALSE]
Bytes(isEmpty) == [kind |-> "bytes", exc |-> "", empty |-> isEmpty]
Raise(e) == [kind |-> "raise", exc |-> e, empty |-> FALSE]

(***************************************************************************)
(* Export data and contexts.                                               *)
(***************************************************************************)
XData(kind, hasKey, inner, recs, hdrAttr) ==
    [kind |-> kind, hasKey |-> hasKey, inner |-> inner, recs |-> recs,
     hdrAttr |-> hdrAttr]

RecordLists == SeqsUpTo(Records, MaxRecords)

ExportData ==
    {XData("none", FALSE, "none", <<>>, NoHeader),
     XData("dict", FALSE, "none", <<>>, NoHeader)}
    \cup {XData("dict", TRUE, "list", r, NoHeader) : r \in RecordLists}
    \cup {XData("list", FALSE, "none", r, h) : r \in RecordLists,
                                               h \in {NoHeader, Hdr(<<"c", "a">>)}}
    \cup {XData("iter", FALSE, "none", r, NoHeader) : r \in RecordLists}

StyleKeys ==
    {"header_font", "header_fill", "header_alignment", "header_height",
     "freeze_panes"}

\* CustomXLSXRenderer.export_style
DefaultStyle ==
    [header_font |-> "Font(b=True)", header_fill |-> "PatternFill(87CEFA)",
     header_alignment |-> "Alignment(center)", header_height |-> "18",
     freeze_panes |-> "A2"]

NoStyle == [set |-> FALSE, val |-> <<>>]
Style(s) == [set |-> TRUE, val |-> s]

StyleOverrides ==
    { [k \in StyleKeys |-> "custom"],
      [k \in {"header_height"} |-> "custom"],
      [k \in StyleKeys \ {"freeze_panes"} |-> "custom"] }

Ctx(isNone, hasResponse, request, h, s) ==
    [none |-> isNone, response |-> hasResponse, request |-> request,
     header |-> h, style |-> s]

EmptyCtx == Ctx(FALSE, FALSE, "absent", NoHeader, NoStyle)
NoneCtx == Ctx(TRUE, FALSE, "absent", NoHeader, NoStyle)

ExportContexts ==
    {NoneCtx, EmptyCtx}
    \cup {Ctx(FALSE, FALSE, "absent", Hdr(h), NoStyle) :
            h \in {<<"a", "b">>, <<"b", "z">>, <<>>}}

XlsxContexts ==
    ExportContexts
    \cup {Ctx(FALSE, FALSE, "absent", NoHeader, Style(s)) : s \in StyleOverrides}

\* data = data[self.data_key], or [] on KeyError
Results(d) ==
    IF d.kind = "dict"
    THEN IF d.hasKey THEN [d EXCEPT !.kind = d.inner, !.hasKey = FALSE, !.inner = "none"]
         ELSE XData("list", FALSE, "none", <<>>, NoHeader)
    ELSE d

NoPayload ==
    [bare |-> FALSE, keys |-> {}, request_id |-> "", ret |-> 0, msg |-> "",
     data |-> <<>>]

InitExport ==
    /\ renderer \in {"csv", "xlsx"}
    /\ data \in ExportData
    /\ renderer_context \in IF renderer = "csv" THEN ExportContexts ELSE XlsxContexts
    /\ arg = [data |-> data, renderer_context |-> renderer_context, status_code |-> 0]
    /\ pc = "call"
    /\ status_code = 0
    /\ payload = NoPayload
    /\ header = NoHeader
    /\ export_style = NoStyle
    /\ gen = NoGen
    /\ written = <<>>
    /\ sheet_style = <<>>
    /\ result = Pending

(***************************************************************************)
(* CustomCSVRenderer.render                                                *)
(***************************************************************************)
CsvBegin ==
    /\ renderer = "csv" /\ pc = "call"
    /\ LET ctx == IF renderer_context.none THEN EmptyCtx ELSE renderer_context
       IN /\ renderer_context' = ctx
          /\ IF data.kind = "none"
             THEN /\ result' = Bytes(TRUE)
                  /\ pc' = "done"
                  /\ UNCHANGED <<data, header, gen>>
             ELSE /\ data' = Results(data)
                  /\ header' = IF ctx.header.set THEN ctx.header ELSE NoHeader
                  /\ gen' = NewGen(data', header')
                  /\ pc' = "loop"
                  /\ UNCHANGED result
    /\ UNCHANGED <<renderer, arg, status_code, payload, export_style, written,
                   sheet_style>>

\* for row in table: csv_writer.writerow(row)
CsvLoop ==
    /\ renderer = "csv" /\ pc = "loop"
    /\ LET r == tablize(gen)
       IN /\ gen' = r.g
          /\ CASE r.out = "yield" ->
                    /\ written' = Append(written, r.row)
                    /\ UNCHANGED <<pc, result>>
               [] r.out = "stop" ->
                    /\ pc' = "return"
                    /\ UNCHANGED <<written, result>>
               [] OTHER ->
                    /\ result' = Raise(r.exc)
                    /\ pc' = "done"
                    /\ UNCHANGED written
    /\ UNCHANGED <<renderer, arg, data, renderer_context, status_code, payload,
                   header, export_style, sheet_style>>

\* return csv_buffer.getvalue()
CsvReturn ==
    /\ renderer = "csv" /\ pc = "return"
    /\ result' = Bytes(written = <<>>)
    /\ pc' = "done"
    /\ UNCHANGED <<renderer, arg, data, renderer_context, status_code, payload,
                   header, export_style, gen, written, sheet_style>>

(***************************************************************************)
(* CustomXLSXRenderer.render                                               *)
(***************************************************************************)
XlsxBegin ==
    /\ renderer = "xlsx" /\ pc = "call"
    /\ IF data.kind = "none"
       THEN /\ result' = Bytes(TRUE)
            /\ pc' = "done"
            /\ UNCHANGED <<data, header, export_style, gen>>
       ELSE /\ data' = Results(data)
            /\ IF renderer_context.none
               THEN \* None has no attribute get
                    /\ result' = Raise("AttributeError")
                    /\ pc' = "done"
                    /\ UNCHANGED <<header, export_style, gen>>
               ELSE /\ header' = IF renderer_context.header.set
                                 THEN renderer_context.header ELSE NoHeader
                    /\ export_style' = IF renderer_context.style.set
                                       THEN renderer_context.style
                                       ELSE Style(DefaultStyle)
                    /\ gen' = NewGen(data', header')
                    /\ pc' = "loop"
                    /\ UNCHANGED result
    /\ UNCHANGED <<renderer, arg, renderer_context, status_code, payload,
                   written, sheet_style>>

\* for row in table: sheet.append(row)
XlsxLoop ==
    /\ renderer = "xlsx" /\ pc = "loop"
    /\ LET r == tablize(gen)
       IN /\ gen' = r.g
          /\ CASE r.out = "yield" ->
                    /\ written' = Append(written, r.row)
                    /\ UNCHANGED <<pc, result>>
               [] r.out = "stop" ->
                    /\ pc' = "style"
                    /\ UNCHANGED <<written, result>>
               [] OTHER ->
                    /\ result' = Raise(r.exc)
                    /\ pc' = "done"
                    /\ UNCHANGED written
    /\ UNCHANGED <<renderer, arg, data, renderer_context, status_code, payload,
                   header, export_style, sheet_style>>

\* The keys read with export_style[...]: the three cell styles once per cell
\* of row 1 (sheet["1:1"] holds at least the cell A1), then the row height.
SubscriptedStyleKeys ==
    <<"header_font", "header_fill", "header_alignment", "header_height">>

\* The style block: export_style[key] for the subscripted keys in order, a
\* missing one raising KeyError; then export_style.get("freeze_panes", True).
ApplyStyle(style) ==
    LET missing == {i \in 1..Len(SubscriptedStyleKeys) :
                        SubscriptedStyleKeys[i] \notin DOMAIN style}
    IN IF missing # {}
       THEN [exc |-> "KeyError", applied |-> <<>>]
       ELSE [exc |-> "",
             applied |-> [k \in StyleKeys |->
                            IF k \in DOMAIN style THEN style[k] ELSE "True"]]

XlsxStyle ==
    /\ renderer = "xlsx" /\ pc = "style"
    /\ LET s == ApplyStyle(export_style.val)
       IN IF s.exc # ""
          THEN /\ result' = Raise(s.exc)
               /\ pc' = "done"
               /\ UNCHANGED sheet_style
          ELSE /\ sheet_style' = s.applied
               /\ pc' = "save"
               /\ UNCHANGED result
    /\ UNCHANGED <<renderer, arg, data, renderer_context, status_code, payload,
                   header, export_style, gen, written>>

\* workbook.save(excel_buffer); return excel_buffer.getvalue()
XlsxSave ==
    /\ renderer = "xlsx" /\ pc = "save"
    /\ result' = Bytes(FALSE)
    /\ pc' = "done"
    /\ UNCHANGED <<renderer, arg, data, renderer_context, status_code, payload,
                   header, export_style, gen, written, sheet_style>>

(***************************************************************************)
(* CustomJSONRenderer: response payloads.  A payload is None, an int, a    *)
(* str (txt: its characters), a dict (fields) or a list (items).           *)
(***************************************************************************)
JVal(kind, txt, fields, items) ==
    [kind |-> kind, txt |-> txt, fields |-> fields, items |-> items]

JNone == JVal("none", <<>>, <<>>, <<>>)
JInt == JVal("int", <<"5">>, <<>>, <<>>)
JStr(chars) == JVal("str", chars, <<>>, <<>>)
JDict(fields) == JVal("dict", <<>>, fields, <<>>)
JList(items) == JVal("list", <<>>, <<>>, items)

JsonPayloads ==
    { JNone,
      JInt,
      JStr(<<"o", "k">>),
      JStr(<<>>),
      JDict(<<Pair("detail", "not found")>>),
      JDict(<<Pair("field", "required")>>),
      JDict(<<Pair("id", "7"), Pair("detail", "gone")>>),
      JDict(<<>>),
      JList(<<>>),
      JList(<<JDict(<<Pair("detail", "bad")>>)>>),
      JList(<<JDict(<<Pair("field", "required")>>), JDict(<<>>)>>),
      JList(<<JInt>>),
      JList(<<JNone>>),
      JList(<<JStr(<<"e">>)>>) }

StatusCodes == {199, 200, 204, 299, 300, 400, 404, 500}

\* status.HTTP_200_OK
HTTP_200_OK == 200

\* rest_framework.status.is_success
is_success(code) == 200 <= code /\ code <= 299

JsonContexts ==
    {NoneCtx, EmptyCtx}
    \cup {Ctx(FALSE, TRUE, r, NoHeader, NoStyle) : r \in {"absent", "noid", "id"}}

Ok(value) == [exc |-> "", val |-> value]
Exc(e) == [exc |-> e, val |-> JNone]

\* d["detail"]
SubscriptDetail(d) ==
    CASE d.kind = "dict" ->
            IF HasKey(d.fields, "detail")
            THEN [exc |-> "", val |-> DictGet(d.fields, "detail", "")]
            ELSE [exc |-> "KeyError", val |-> ""]
      [] OTHER -> [exc |-> "TypeError", val |-> ""]

\* d[0]
SubscriptZero(d) ==
    CASE d.kind = "list" ->
            IF d.items # <<>> THEN Ok(d.items[1]) ELSE Exc("IndexError")
      [] d.kind = "str" ->
            IF d.txt # <<>> THEN Ok(JStr(<<d.txt[1]>>)) ELSE Exc("IndexError")
      [] d.kind = "dict" -> Exc("KeyError")
      [] OTHER -> Exc("TypeError")

\* payload[key] = value
SetItem(p, key, value) ==
    CASE key = "request_id" -> [p EXCEPT !.keys = @ \cup {key}, !.request_id = value]
      [] key = "ret" -> [p EXCEPT !.keys = @ \cup {key}, !.ret = value]
      [] key = "msg" -> [p EXCEPT !.keys = @ \cup {key}, !.msg = value]
      [] OTHER -> [p EXCEPT !.keys = @ \cup {key}, !.data = value]

\* payload.pop("data", None)
PopData(p) == [p EXCEPT !.keys = @ \ {"data"}, !.data = <<>>]

\* The envelope built before the status is looked at.
Envelope(ctx, code, d) ==
    LET p0 == IF ctx.request = "id"
              THEN SetItem(NoPayload, "request_id", "req-1") ELSE NoPayload
        p1 == SetItem(SetItem(p0, "ret", code), "msg", "success")
    IN IF d.kind # "none" THEN SetItem(p1, "data", d) ELSE p1

error_detail_AlwaysPop(p, d) ==
    LET d1 == SubscriptDetail(d)
    IN IF d1.exc = ""
       THEN [exc |-> "", payload |-> PopData(SetItem(p, "msg", d1.val)), data |-> d]
       ELSE IF d1.exc = "KeyError"
       THEN [exc |-> "", payload |-> PopData(SetItem(p, "msg", "Invalid input.")),
             data |-> d]
       ELSE LET z == SubscriptZero(d)
            IN IF z.exc # ""
               THEN [exc |-> z.exc, payload |-> p, data |-> d]
               ELSE LET d2 == SubscriptDetail(z.val)
                    IN IF d2.exc # ""
                       THEN [exc |-> d2.exc, payload |-> p, data |-> z.val]
                       ELSE [exc |-> "",
                             payload |-> PopData(SetItem(p, "msg", d2.val)),
                             data |-> z.val]

\* The try statement run when the status is not a success: the new payload
\* and data, or the exception that leaves it (one raised inside the
\* `except TypeError` clause is not caught by its sibling `except KeyError`).
error_detail(p, d) ==
    LET d1 == SubscriptDetail(d)
    IN IF d1.exc = ""
       THEN [exc |-> "", payload |-> PopData(SetItem(p, "msg", d1.val)), data |-> d]
       ELSE IF d1.exc = "KeyError"
       THEN [exc |-> "", payload |-> SetItem(p, "msg", "Invalid input."), data |-> d]
       ELSE LET z == SubscriptZero(d)
            IN IF z.exc # ""
               THEN [exc |-> z.exc, payload |-> p, data |-> d]
               ELSE LET d2 == SubscriptDetail(z.val)
                    IN IF d2.exc # ""
                       THEN [exc |-> d2.exc, payload |-> p, data |-> z.val]
                       ELSE [exc |-> "",
                             payload |-> PopData(SetItem(p, "msg", d2.val)),
                             data |-> z.val]

InitJson ==
    /\ renderer = "json"
    /\ data \in JsonPayloads
    /\ renderer_context \in JsonContexts
    /\ status_code \in IF renderer_context.response THEN StatusCodes ELSE {0}
    /\ arg = [data |-> data, renderer_context |-> renderer_context,
              status_code |-> status_code]
    /\ pc = "call"
    /\ payload = NoPayload
    /\ header = NoHeader
    /\ export_style = NoStyle
    /\ gen = NoGen
    /\ written = <<>>
    /\ sheet_style = <<>>
    /\ result = Pending

\* if response := renderer_context.get("response") ... elif data is None ... else
JsonEnter ==
    /\ renderer = "json" /\ pc = "call"
    /\ IF renderer_context.none
       THEN /\ result' = Raise("AttributeError")
            /\ pc' = "done"
            /\ UNCHANGED payload
       ELSE IF renderer_context.response
       THEN /\ payload' = Envelope(renderer_context, status_code, data)
            /\ pc' = IF is_success(status_code) THEN "normalize" ELSE "detail"
            /\ UNCHANGED result
       ELSE IF data.kind = "none"
       THEN /\ result' = Bytes(TRUE)
            /\ pc' = "done"
            /\ UNCHANGED payload
       ELSE /\ payload' = [NoPayload EXCEPT !.bare = TRUE, !.data = data]
            /\ pc' = "serialize"
            /\ UNCHANGED result
    /\ UNCHANGED <<renderer, arg, data, renderer_context, status_code, header,
                   export_style, gen, written, sheet_style>>

\* if not is_success(response.status_code): try ... except ...
JsonErrorDetail ==
    /\ renderer = "json" /\ pc = "detail"
    /\ LET r == error_detail(payload, data)
       IN /\ payload' = r.payload
          /\ data' = r.data
          /\ IF r.exc # ""
             THEN /\ result' = Raise(r.exc)
                  /\ pc' = "done"
             ELSE /\ pc' = "normalize"
                  /\ UNCHANGED result
    /\ UNCHANGED <<renderer, arg, renderer_context, status_code, header,
                   export_style, gen, written, sheet_style>>

\* response.status_code = status.HTTP_200_OK
JsonNormalize ==
    /\ renderer = "json" /\ pc = "normalize"
    /\ status_code' = HTTP_200_OK
    /\ pc' = "serialize"
    /\ UNCHANGED <<renderer, arg, data, renderer_context, payload, header,
                   export_style, gen, written, sheet_style, result>>

\* response._rendered_data = payload; return orjson.dumps(payload, ...)
JsonSerialize ==
    /\ renderer = "json" /\ pc = "serialize"
    /\ result' = IF renderer_context.response THEN Bytes(FALSE)
                 ELSE Raise("AttributeError")
    /\ pc' = "done"
    /\ UNCHANGED <<renderer, arg, data, renderer_context, status_code, payload,
                   header, export_style, gen, written, sheet_style>>


Init == InitExport \/ InitJson

Next ==
    \/ CsvBegin
    \/ CsvLoop
    \/ CsvReturn
    \/ XlsxBegin
    \/ XlsxLoop
    \/ XlsxStyle
    \/ XlsxSave
    \/ JsonEnter
    \/ JsonErrorDetail
    \/ JsonNormalize
    \/ JsonSerialize

Spec == Init /\ [][Next]_vars

(***************************************************************************)
(* Vocabulary of the properties.                                           *)
(***************************************************************************)
IsExport == renderer \in {"csv", "xlsx"}

\* The records handed to tablize, as the caller's data holds them.
Recs == gen.data.recs

\* A header reached tablize: its argument, or the data's header attribute.
HeaderAvailable == Truthy(header) \/ Truthy(gen.data.hdrAttr)

AvailableHeader == IF Truthy(header) THEN header.val ELSE gen.data.hdrAttr.val

\* The keys of a record in the order of their first occurrence.
FirstKeys(rec) ==
    LET idx == {i \in 1..Len(rec) : \A j \in 1..(i - 1) : rec[j].k # rec[i].k}
    IN [n \in 1..Cardinality(idx) |->
            rec[CHOOSE i \in idx : Cardinality({j \in idx : j < i}) = n - 1].k]

\* The value a record holds for a key it has: the last pair with that key.
LastValue(rec, key) ==
    rec[CHOOSE i \in 1..Len(rec) :
            /\ rec[i].k = key
            /\ \A j \in (i + 1)..Len(rec) : rec[j].k # key].v

\* cell is what record rec shows in the column of key: its value for the key,
\* as it is or in string form, and the empty string when it lacks the key.
CellShows(rec, key, cell) ==
    IF HasKey(rec, key)
    THEN cell \in {LastValue(rec, key), Str(LastValue(rec, key))}
    ELSE cell = EmptyStr

DataRows == 2..Len(written)

C2_EmptyDataRows ==
    (IsExport /\ gen.at \in {"finished", "raised"} /\ Recs = <<>>) =>
        IF HeaderAvailable
        THEN gen.at = "finished" /\ written = <<AvailableHeader>>
        ELSE gen.at = "finished" /\ written = <<>>

JsonWithResponse == renderer = "json" /\ arg.renderer_context.response

JsonError == JsonWithResponse /\ ~is_success(arg.status_code)

\* The payload carries an error detail: as a mapping, or in the first element
\* of a list.
HasDetail(d) ==
    \/ d.kind = "dict" /\ HasKey(d.fields, "detail")
    \/ /\ d.kind = "list" /\ d.items # <<>>
       /\ d.items[1].kind = "dict" /\ HasKey(d.items[1].fields, "detail")

DetailOf(d) ==
    IF d.kind = "dict" THEN DictGet(d.fields, "detail", "")
    ELSE DictGet(d.items[1].fields, "detail", "")

\* C5 as stated: every envelope rendered for a non-2xx status has no data
\* key, whatever the shape of the payload, and carries the payload's detail
\* as msg when there is one.
C5_NoDataOnError ==
    (JsonError /\ result.kind = "bytes") =>
        /\ "data" \notin payload.keys
        /\ HasDetail(arg.data) => payload.msg = DetailOf(arg.data)

\* C5 amended: an envelope rendered for a non-2xx status has no data key and
\* the detail as msg when the payload carries a detail; for a mapping with no
\* detail entry it keeps the payload under data and msg is "Invalid input.".
C5_ErrorEnvelope ==
    (JsonError /\ result.kind = "bytes") =>
        /\ HasDetail(arg.data) =>
              "data" \notin payload.keys /\ payload.msg = DetailOf(arg.data)
        /\ (arg.data.kind = "dict" /\ ~HasKey(arg.data.fields, "detail")) =>
              /\ payload.msg = "Invalid input."
              /\ "data" \in payload.keys
              /\ payload.data = arg.data

\* An error envelope was rendered for a mapping that has no detail entry.
C5_Witness ==
    /\ JsonError /\ result.kind = "bytes"
    /\ arg.data.kind = "dict" /\ arg.data.fields # <<>>
    /\ ~HasKey(arg.data.fields, "detail")

\* C6: whenever the context carries a response, once render is over the
\* envelope's ret is the status the response had at the call and the
\* response's status is 200, whatever the status and the payload were.
C6_StatusNormalized ==
    (JsonWithResponse /\ pc = "done") =>
        /\ status_code = HTTP_200_OK
        /\ "ret" \in payload.keys /\ payload.ret = arg.status_code

\* C7: for a non-2xx status and a payload of malformed error shape (no
\* detail to be found), render does not raise: it returns bytes and msg is
\* "Invalid input.".
C7_MalformedFallsBack ==
    (JsonError /\ pc = "done" /\ ~HasDetail(arg.data)) =>
        result.kind = "bytes" /\ payload.msg = "Invalid input."

\* C8: with an export_style override in the context and a table with a
\* header row, the render succeeds and every style key takes the override's
\* value when the override has the key and the default's value otherwise.
C8_StyleMerged ==
    (renderer = "xlsx" /\ pc = "done" /\ gen.at = "finished"
        /\ written # <<>> /\ written[1] # <<>>
        /\ arg.renderer_context.style.set) =>
        /\ result.kind = "bytes"
        /\ \A k \in StyleKeys :
              sheet_style[k] = IF k \in DOMAIN arg.renderer_context.style.val
                               THEN arg.renderer_context.style.val[k]
                               ELSE DefaultStyle[k]

\* C9: in both export renderers, with the default style, a null payload, a
\* mapping without the results key or a dataset without records ends in
\* bytes (empty bytes for the null payload), never in an exception, with or
\* without a header and with or without a context mapping.
C9_MissingDataNeverRaises ==
    (/\ IsExport /\ pc = "done" /\ ~arg.renderer_context.style.set
     /\ \/ arg.data.kind = "none"
        \/ arg.data.kind = "dict" /\ ~arg.data.hasKey
        \/ arg.data.recs = <<>>) =>
        /\ result.kind = "bytes"
        /\ arg.data.kind = "none" => result.empty

====
